---- MODULE Spec2Model ----
(***************************************************************************)
(* graphql-to-diagram (src/main.go): processSchema builds a Diagram from a *)
(* parsed GraphQL document, generateDrawIOXML lays it out with three calls *)
(* of calculateLayout (a force-directed simulation over float64 positions) *)
(* and emits draw.io cells.                                                *)
(*                                                                         *)
(* float64 is modelled as a binary floating-point number with the exponent *)
(* range of float64, round-to-nearest-even, gradual underflow, +/-Inf and  *)
(* NaN, and a significand of Precision bits instead of 53.                 *)
(***************************************************************************)
EXTENDS Integers, Sequences, FiniteSets, TLC

\* ------------------------------------------------------------------------
\* float64 arithmetic (Position.X, Position.Y, k, dist, force)
\* ------------------------------------------------------------------------

\* Bits of significand kept by the model (float64 keeps 53).
Precision == 11

\* Largest and smallest binary exponent of a normal float64.
MaxExp == 1023

MinExp == -1022

\* Exponent of the unit in the last place of the smallest subnormal.
MinUlpExp == MinExp - (Precision - 1)

Pow2 == [i \in 0..30 |-> 2^i]

Abs(n) == IF n < 0 THEN -n ELSE n

Sign(n) == IF n < 0 THEN -1 ELSE 1

MaxInt(a, b) == IF a >= b THEN a ELSE b

\* Number of bits of a, 1 <= a < 2^30.
BitLen(a) == CHOOSE b \in 1..30 : Pow2[b - 1] <= a /\ a < Pow2[b]

\* A float is [c, m, e]: c = "fin" is the value m * 2^e (m signed, |m| < 2^Precision,
\* zero is m = 0, e = 0); c = "inf" is +Inf (m = 1) or -Inf (m = -1); c = "nan" is NaN.
Zero == [c |-> "fin", m |-> 0, e |-> 0]

NaN == [c |-> "nan", m |-> 0, e |-> 0]

Inf(s) == [c |-> "inf", m |-> s, e |-> 0]

IsNaN(a) == a.c = "nan"

IsInf(a) == a.c = "inf"

IsFinite(a) == a.c = "fin"

IsZero(a) == a.c = "fin" /\ a.m = 0

\* The float s * m * 2^e for a rounded significand m: +/-Inf when the exponent
\* exceeds that of the largest float64.
Pack(s, m, e) ==
  IF m = 0 THEN Zero
  ELSE IF m = Pow2[Precision] THEN
         (IF e + Precision > MaxExp THEN Inf(s)
          ELSE [c |-> "fin", m |-> s * Pow2[Precision - 1], e |-> e + 1])
  ELSE IF m >= Pow2[Precision - 1] /\ e + Precision - 1 > MaxExp THEN Inf(s)
  ELSE [c |-> "fin", m |-> s * m, e |-> e]

\* Quotient q and remainder r of the significand by 2 * half, rounded to nearest,
\* ties to even.
RoundHalfEven(q, r, half) ==
  IF r > half \/ (r = half /\ q % 2 = 1) THEN q + 1 ELSE q

\* a * 2^e (a > 0 of b bits) with sign s, shifted right by sh bits (left if sh < 0).
RoundShift(s, a, b, e, sh) ==
  IF sh <= 0 THEN Pack(s, a * Pow2[-sh], e + sh)
  ELSE IF sh > b THEN Zero
  ELSE Pack(s, RoundHalfEven(a \div Pow2[sh], a % Pow2[sh], Pow2[sh - 1]), e + sh)

RoundBits(s, a, b, e) ==
  RoundShift(s, a, b, e, MaxInt(b - Precision, MinUlpExp - e))

\* The float nearest to n * 2^e (ties to even), +/-Inf on overflow, subnormal or
\* zero on underflow.
Round(n, e) ==
  IF n = 0 THEN Zero ELSE RoundBits(Sign(n), Abs(n), BitLen(Abs(n)), e)

\* float64(n) for an int n.
FromInt(n) == Round(n, 0)

FNeg(a) == IF a.c = "nan" THEN NaN ELSE [a EXCEPT !.m = -a.m]

\* hi + lo for finite non-zero floats with hi.e >= lo.e.
AddAligned(hi, lo) ==
  IF hi.e - lo.e > Precision + 2 THEN hi
  ELSE Round(hi.m * Pow2[hi.e - lo.e] + lo.m, lo.e)

\* a + b
FAdd(a, b) ==
  IF IsNaN(a) \/ IsNaN(b) THEN NaN
  ELSE IF IsInf(a) /\ IsInf(b) THEN (IF a.m = b.m THEN a ELSE NaN)
  ELSE IF IsInf(a) THEN a
  ELSE IF IsInf(b) THEN b
  ELSE IF a.m = 0 THEN b
  ELSE IF b.m = 0 THEN a
  ELSE IF a.e >= b.e THEN AddAligned(a, b)
  ELSE AddAligned(b, a)

\* a - b
FSub(a, b) == FAdd(a, FNeg(b))

\* a * b
FMul(a, b) ==
  IF IsNaN(a) \/ IsNaN(b) THEN NaN
  ELSE IF IsInf(a) \/ IsInf(b)
       THEN (IF a.m = 0 \/ b.m = 0 THEN NaN ELSE Inf(Sign(a.m) * Sign(b.m)))
  ELSE Round(a.m * b.m, a.e + b.e)

\* num / den with a sticky bit for the remainder.
DivSticky(num, den) == 2 * (num \div den) + (IF num % den = 0 THEN 0 ELSE 1)

\* a / b
FDiv(a, b) ==
  IF IsNaN(a) \/ IsNaN(b) THEN NaN
  ELSE IF IsInf(a) THEN (IF IsInf(b) THEN NaN ELSE Inf(Sign(a.m) * Sign(b.m)))
  ELSE IF IsInf(b) THEN Zero
  ELSE IF b.m = 0 THEN (IF a.m = 0 THEN NaN ELSE Inf(Sign(a.m)))
  ELSE IF a.m = 0 THEN Zero
  ELSE Round(Sign(a.m) * Sign(b.m) * DivSticky(Abs(a.m) * Pow2[Precision + 2], Abs(b.m)),
             a.e - b.e - (Precision + 2) - 1)

RECURSIVE ISqrtIter(_, _, _)
ISqrtIter(n, bit, r) ==
  IF bit = 0 THEN r
  ELSE IF (r + bit) * (r + bit) <= n THEN ISqrtIter(n, bit \div 2, r + bit)
  ELSE ISqrtIter(n, bit \div 2, r)

\* Floor of the square root of n, 0 <= n < 2^30.
ISqrt(n) == ISqrtIter(n, Pow2[14], 0)

\* The root r of n, with a sticky bit when it is not exact.
SqrtSticky(n, r) == 2 * r + (IF r * r = n THEN 0 ELSE 1)

\* sqrt(m * 2^e), m > 0, with m shifted left by s bits, e - s even.
SqrtShift(m, e, s) ==
  Round(SqrtSticky(m * Pow2[s], ISqrt(m * Pow2[s])), ((e - s) \div 2) - 1)

\* math.Sqrt(a)
FSqrt(a) ==
  IF IsNaN(a) THEN NaN
  ELSE IF a.m < 0 THEN NaN
  ELSE IF IsInf(a) THEN a
  ELSE IF a.m = 0 THEN Zero
  ELSE SqrtShift(a.m, a.e,
                 IF (a.e - (Precision + 2)) % 2 = 0 THEN Precision + 2 ELSE Precision + 3)

\* d < 0 for a difference d.
IsNegative(d) == IF IsNaN(d) THEN FALSE ELSE d.m < 0

\* a < b
FLess(a, b) == IsNegative(FSub(a, b))

\* math.Max(x, y): +Inf if either is +Inf, else NaN if either is NaN.
FMax(x, y) ==
  IF (IsInf(x) /\ x.m = 1) \/ (IsInf(y) /\ y.m = 1) THEN Inf(1)
  ELSE IF IsNaN(x) \/ IsNaN(y) THEN NaN
  ELSE IF FLess(x, y) THEN y ELSE x

\* ------------------------------------------------------------------------
\* Program constants
\* ------------------------------------------------------------------------

ClassWidth == 200

ClassHeaderHeight == 30

FieldHeight == 20

ScalarWidth == 80

ScalarHeight == 80

DirectiveWidth == 160

DirectiveHeight == 90

ClassStyle == "swimlane;fontStyle=1;align=center;verticalAlign=top;childLayout=stackLayout;horizontal=1;startSize=30;horizontalStack=0;resizeParent=1;resizeParentMax=0;resizeLast=0;collapsible=1;marginBottom=0;"

FieldStyle == "text;strokeColor=none;fillColor=none;align=left;verticalAlign=top;spacingLeft=4;spacingRight=4;overflow=hidden;rotatable=0;points=[[0,0.5],[1,0.5]];portConstraint=eastwest;"

EdgeStyle == "edgeStyle=orthogonalEdgeStyle;rounded=1;orthogonalLoop=1;jettySize=auto;html=1;"

ScalarStyle == "ellipse;whiteSpace=wrap;html=1;aspect=fixed;fillColor=#f5f5f5;"

DirectiveStyle == "shape=hexagon;perimeter=hexagonPerimeter2;whiteSpace=wrap;html=1;fixedSize=1;fillColor=#fff2cc;strokeColor=#d6b656;"

ArgumentStyle == "text;strokeColor=none;fillColor=none;align=left;verticalAlign=top;spacingLeft=4;spacingRight=4;overflow=hidden;rotatable=0;points=[[0,0.5],[1,0.5]];portConstraint=eastwest;"

\* iterations := 100 in calculateLayout.
Iterations == 100

\* maxWidth: 1920, maxHeight: 1080 in main.
MaxWidth == 1920

MaxHeight == 1080

\* ------------------------------------------------------------------------
\* The parsed document (ast.Document) and its types
\* ------------------------------------------------------------------------

\* ast.Type: wrap lists the NonNull / List wrappers from the outside in, name is
\* the ast.Named at the bottom.
Named(n) == [wrap |-> <<>>, name |-> n]

NonNull(t) == [wrap |-> <<"NonNull">> \o t.wrap, name |-> t.name]

List(t) == [wrap |-> <<"List">> \o t.wrap, name |-> t.name]

RECURSIVE TypeStringFrom(_, _)
TypeStringFrom(t, i) ==
  IF i > Len(t.wrap) THEN t.name
  ELSE IF t.wrap[i] = "NonNull" THEN TypeStringFrom(t, i + 1) \o "!"
  ELSE "[" \o TypeStringFrom(t, i + 1) \o "]"

getTypeString(t) == TypeStringFrom(t, 1)

getBaseType(t) == t.name

isNonNullType(t) == Len(t.wrap) > 0 /\ t.wrap[1] = "NonNull"

BuiltinScalars == {"String", "Int", "Float", "Boolean", "ID"}

isInputType(t, doc) ==
  \E n \in 1..Len(doc) : doc[n].kind = "input" /\ doc[n].name = getBaseType(t)

isObjectType(t, doc) ==
  getBaseType(t) \notin BuiltinScalars /\ ~isInputType(t, doc)

isCustomScalar(t, doc) ==
  IF getBaseType(t) \in BuiltinScalars THEN FALSE
  ELSE \E n \in 1..Len(doc) : doc[n].kind = "scalar" /\ doc[n].name = getBaseType(t)

\* desc is the description's value, "" for a nil *ast.StringValue.
getDescription(desc) == desc

\* ast.Value of an argument default: kind "nil" is no default.
formatDefaultValue(v) ==
  CASE v.kind = "string"  -> "\"" \o v.value \o "\""
    [] v.kind = "int"     -> v.value
    [] v.kind = "float"   -> v.value
    [] v.kind = "boolean" -> v.value
    [] v.kind = "enum"    -> v.value
    [] OTHER              -> ""

NoDefault == [kind |-> "nil", value |-> ""]

\* A field of an object type or an argument of a directive.
FieldDef(n, t) == [name |-> n, type |-> t, default |-> NoDefault]

ArgDef(n, t, dv) == [name |-> n, type |-> t, default |-> dv]

ObjectDef(n, fs) == [kind |-> "object", name |-> n, desc |-> "", fields |-> fs, locations |-> <<>>]

ScalarDef(n, ds) == [kind |-> "scalar", name |-> n, desc |-> ds, fields |-> <<>>, locations |-> <<>>]

DirectiveDef(n, as, ls) == [kind |-> "directive", name |-> n, desc |-> "", fields |-> as, locations |-> ls]

InputDef(n, fs) == [kind |-> "input", name |-> n, desc |-> "", fields |-> fs, locations |-> <<>>]

EnumDef(n) == [kind |-> "enum", name |-> n, desc |-> "", fields |-> <<>>, locations |-> <<>>]

\* ------------------------------------------------------------------------
\* The diagram
\* ------------------------------------------------------------------------

Position(x, y) == [X |-> x, Y |-> y]

ZeroPosition == Position(Zero, Zero)

\* The Diagram main constructs (format = DrawIO, the -format drawio run).
EmptyDiagram ==
  [Classes |-> <<>>, Relations |-> <<>>, Scalars |-> <<>>, Directives |-> <<>>,
   format |-> "DrawIO", maxWidth |-> FromInt(MaxWidth), maxHeight |-> FromInt(MaxHeight)]

ClassFields(def) ==
  [n \in 1..Len(def.fields) |->
     [Name |-> def.fields[n].name,
      Type |-> getTypeString(def.fields[n].type),
      IsRequired |-> isNonNullType(def.fields[n].type)]]

RECURSIVE FieldRelations(_, _, _)
FieldRelations(def, doc, n) ==
  IF n > Len(def.fields) THEN <<>>
  ELSE
    LET t == def.fields[n].type
    IN  (IF isObjectType(t, doc) \/ isInputType(t, doc)
         THEN <<[From |-> def.name, To |-> getBaseType(t), Type |-> "uses", EdgeType |-> ""]>>
         ELSE <<>>) \o FieldRelations(def, doc, n + 1)

DirectiveArguments(def) ==
  [n \in 1..Len(def.fields) |->
     [Name |-> def.fields[n].name,
      Type |-> getTypeString(def.fields[n].type),
      IsRequired |-> isNonNullType(def.fields[n].type),
      DefaultValue |-> IF def.fields[n].default.kind = "nil" THEN ""
                       ELSE formatDefaultValue(def.fields[n].default)]]

RECURSIVE ArgumentRelations(_, _, _)
ArgumentRelations(def, doc, n) ==
  IF n > Len(def.fields) THEN <<>>
  ELSE
    LET t == def.fields[n].type
    IN  (IF isObjectType(t, doc) \/ isInputType(t, doc) \/ isCustomScalar(t, doc)
         THEN <<[From |-> "@" \o def.name, To |-> getBaseType(t), Type |-> "uses",
                 EdgeType |-> "directive"]>>
         ELSE <<>>) \o ArgumentRelations(def, doc, n + 1)

\* One iteration of the loop over doc.Definitions.
ProcessDefinition(def, doc, diagram) ==
  CASE def.kind = "object" ->
         [diagram EXCEPT
            !.Classes = Append(@, [ID |-> "c" \o def.name, Name |-> def.name,
                                   Fields |-> ClassFields(def), Position |-> ZeroPosition,
                                   Width |-> Zero, Height |-> Zero]),
            !.Relations = @ \o FieldRelations(def, doc, 1)]
    [] def.kind = "scalar" ->
         [diagram EXCEPT
            !.Scalars = Append(@, [Name |-> def.name, Description |-> getDescription(def.desc),
                                   Position |-> ZeroPosition])]
    [] def.kind = "directive" ->
         [diagram EXCEPT
            !.Relations = @ \o ArgumentRelations(def, doc, 1),
            !.Directives = Append(@, [Name |-> def.name,
                                      Description |-> getDescription(def.desc),
                                      Arguments |-> DirectiveArguments(def),
                                      Locations |-> def.locations,
                                      Position |-> ZeroPosition])]
    [] OTHER -> diagram

RECURSIVE ProcessFrom(_, _, _)
ProcessFrom(doc, n, diagram) ==
  IF n > Len(doc) THEN diagram
  ELSE ProcessFrom(doc, n + 1, ProcessDefinition(doc[n], doc, diagram))

processSchema(doc, diagram) == ProcessFrom(doc, 1, diagram)

\* ------------------------------------------------------------------------
\* calculateLayout
\* ------------------------------------------------------------------------

\* The constant 0.1 as a float64.
MinDist == FDiv(FromInt(1), FromInt(10))

\* k := math.Sqrt(d.maxWidth * d.maxHeight / float64(totalNodes))
IdealEdgeLength(diagram, n) ==
  FSqrt(FDiv(FMul(diagram.maxWidth, diagram.maxHeight), FromInt(n)))

\* The ClassNode calculateLayout and generateDrawIOXML build for a scalar.
ScalarClassNode(scalar, pos) ==
  [ID |-> "scalar_" \o scalar.Name, Name |-> scalar.Name, Fields |-> <<>>,
   Position |-> pos, Width |-> FromInt(ScalarWidth), Height |-> FromInt(ScalarHeight)]

\* The ClassNode calculateLayout and generateDrawIOXML build for a directive.
DirectiveClassNode(directive, pos) ==
  [ID |-> "directive_" \o directive.Name, Name |-> "@" \o directive.Name, Fields |-> <<>>,
   Position |-> pos, Width |-> FromInt(DirectiveWidth),
   Height |-> FAdd(FromInt(DirectiveHeight),
                   FMul(FromInt(Len(directive.Arguments)), FromInt(FieldHeight)))]

\* Position{X: rand.Float64() * d.maxWidth, Y: rand.Float64() * d.maxHeight}
RandomPosition(diagram, rx, ry) ==
  Position(FMul(rx, diagram.maxWidth), FMul(ry, diagram.maxHeight))

\* The two loops that append a fresh node per scalar and per directive; rnd[n] is
\* the n-th value rand.Float64() returns during the call.
FreshNodes(diagram, rnd) ==
  LET ns == Len(diagram.Scalars)
  IN  [n \in 1..ns |->
         ScalarClassNode(diagram.Scalars[n],
                         RandomPosition(diagram, rnd[2 * n - 1], rnd[2 * n]))]
      \o
      [n \in 1..Len(diagram.Directives) |->
         DirectiveClassNode(diagram.Directives[n],
                            RandomPosition(diagram, rnd[2 * (ns + n) - 1], rnd[2 * (ns + n)]))]

\* dist := math.Max(0.1, math.Sqrt(dx*dx+dy*dy))
Distance(dx, dy) == FMax(MinDist, FSqrt(FAdd(FMul(dx, dx), FMul(dy, dy))))

\* The vector ((dx / dist) * force, (dy / dist) * force).
Scaled(dx, dy, dist, force) ==
  Position(FMul(FDiv(dx, dist), force), FMul(FDiv(dy, dist), force))

\* The repulsion vector for the difference (dx, dy): force := (k * k) / dist.
PushAt(dx, dy, dist, kk) == Scaled(dx, dy, dist, FDiv(FMul(kk, kk), dist))

PushVector(dx, dy, kk) == PushAt(dx, dy, Distance(dx, dy), kk)

\* p.X += v.X; p.Y += v.Y
Plus(p, v) == Position(FAdd(p.X, v.X), FAdd(p.Y, v.Y))

\* p.X -= v.X; p.Y -= v.Y
Minus(p, v) == Position(FSub(p.X, v.X), FSub(p.Y, v.Y))

\* The body of `if v != u`: the new position of v, pushed away from u.
Repel(v, u, kk) == Plus(v, PushVector(FSub(v.X, u.X), FSub(v.Y, u.Y), kk))

RECURSIVE RepulseInner(_, _, _, _)
RepulseInner(nodes, v, u, kk) ==
  IF u > Len(nodes) THEN nodes
  ELSE IF v = u THEN RepulseInner(nodes, v, u + 1, kk)
  ELSE RepulseInner([nodes EXCEPT ![v].Position = Repel(@, nodes[u].Position, kk)],
                    v, u + 1, kk)

RECURSIVE RepulseOuter(_, _, _)
RepulseOuter(nodes, v, kk) ==
  IF v > Len(nodes) THEN nodes
  ELSE RepulseOuter(RepulseInner(nodes, v, 1, kk), v + 1, kk)

\* The repulsion loops of one iteration, in place and in slice order.
Repulsion(nodes, kk) == RepulseOuter(nodes, 1, kk)

\* The last index of a non-empty set of indices.
Last(hits) == CHOOSE n \in hits : \A h \in hits : h <= n

\* The lookup loop of the attraction pass: the last node named name, 0 for nil.
FindNode(nodes, name) ==
  IF \A n \in 1..Len(nodes) : nodes[n].Name # name THEN 0
  ELSE Last({n \in 1..Len(nodes) : nodes[n].Name = name})

\* The attraction vector for the difference (dx, dy): force := (dist * dist) / k.
PullAt(dx, dy, dist, kk) == Scaled(dx, dy, dist, FDiv(FMul(dist, dist), kk))

\* dx, dy after `dx = (dx / dist) * force; dy = (dy / dist) * force`.
PullVector(from, to, kk) ==
  PullAt(FSub(from.X, to.X), FSub(from.Y, to.Y),
         Distance(FSub(from.X, to.X), FSub(from.Y, to.Y)), kk)

\* ApplyPull with the pull subtracted from both endpoints.
ApplyPullSameSign(nodes, from, to, pull) ==
  [[nodes EXCEPT ![from].Position = Minus(@, pull)] EXCEPT ![to].Position = Minus(@, pull)]

\* from.Position -= pull, then to.Position += pull (from and to may be one node).
ApplyPull(nodes, from, to, pull) ==
  [[nodes EXCEPT ![from].Position = Minus(@, pull)] EXCEPT ![to].Position = Plus(@, pull)]

\* Attract with a missing to endpoint read as a zero-valued node at the origin.
AttractMissingAsOrigin(nodes, from, to, kk) ==
  IF from # 0 /\ to # 0
  THEN ApplyPull(nodes, from, to,
                 PullVector(nodes[from].Position, nodes[to].Position, kk))
  ELSE IF from # 0
  THEN [nodes EXCEPT ![from].Position = Minus(@, PullVector(@, ZeroPosition, kk))]
  ELSE nodes

\* The body of `if from != nil && to != nil`.
Attract(nodes, from, to, kk) ==
  IF from # 0 /\ to # 0
  THEN ApplyPull(nodes, from, to,
                 PullVector(nodes[from].Position, nodes[to].Position, kk))
  ELSE nodes

\* The body of the loop over d.Relations for one relation.
AttractRel(nodes, rel, kk) ==
  Attract(nodes, FindNode(nodes, rel.From), FindNode(nodes, rel.To), kk)

\* ------------------------------------------------------------------------
\* generateDrawIOXML
\* ------------------------------------------------------------------------

NoGeometry == <<>>

Geometry(x, y, w, h, rel) == <<[X |-> x, Y |-> y, Width |-> w, Height |-> h, Relative |-> rel]>>

MxCell(id, value, style, parent, vertex, edge, source, target, geometry) ==
  [ID |-> id, Value |-> value, Style |-> style, Parent |-> parent, Vertex |-> vertex,
   Edge |-> edge, Source |-> source, Target |-> target, Geometry |-> geometry]

HeaderCells ==
  <<MxCell("0", "", "", "", "", "", "", "", NoGeometry),
    MxCell("1", "", "", "0", "", "", "", "", NoGeometry)>>

\* ClassHeaderHeight + float64(n) * FieldHeight, and the like.
RowsHeight(header, n) == FAdd(FromInt(header), FMul(FromInt(n), FromInt(FieldHeight)))

FieldCell(class, n) ==
  LET field == class.Fields[n]
  IN  MxCell(class.ID \o "_f" \o ToString(n - 1),
             field.Name \o ": " \o field.Type \o (IF field.IsRequired THEN "!" ELSE ""),
             FieldStyle, class.ID, "1", "", "", "",
             Geometry(Zero, RowsHeight(ClassHeaderHeight, n - 1),
                      FromInt(ClassWidth), FromInt(FieldHeight), ""))

ClassCell(class) ==
  MxCell(class.ID, class.Name, ClassStyle, "1", "1", "", "", "",
         Geometry(class.Position.X, class.Position.Y, FromInt(ClassWidth),
                  RowsHeight(ClassHeaderHeight, Len(class.Fields)), ""))

RECURSIVE ClassCells(_, _)
ClassCells(classes, n) ==
  IF n > Len(classes) THEN <<>>
  ELSE <<ClassCell(classes[n])>>
       \o [f \in 1..Len(classes[n].Fields) |-> FieldCell(classes[n], f)]
       \o ClassCells(classes, n + 1)

EdgeCells(relations) ==
  [n \in 1..Len(relations) |->
     MxCell("e" \o ToString(n - 1), "", EdgeStyle, "1", "", "1",
            relations[n].From, relations[n].To,
            Geometry(Zero, Zero, Zero, Zero, "1"))]

ScalarCells(scalars) ==
  [n \in 1..Len(scalars) |->
     MxCell("scalar_" \o scalars[n].Name, scalars[n].Name, ScalarStyle, "1", "1", "", "", "",
            Geometry(scalars[n].Position.X, scalars[n].Position.Y,
                     FromInt(ScalarWidth), FromInt(ScalarHeight), ""))]

RECURSIVE Join(_, _, _)
Join(strs, sep, n) ==
  IF n > Len(strs) THEN ""
  ELSE IF n = Len(strs) THEN strs[n]
  ELSE strs[n] \o sep \o Join(strs, sep, n + 1)

ArgumentCell(directive, n) ==
  LET arg == directive.Arguments[n]
  IN  MxCell("directive_" \o directive.Name \o "_arg" \o ToString(n - 1),
             arg.Name \o ": " \o arg.Type
               \o (IF arg.DefaultValue # "" THEN " = " \o arg.DefaultValue ELSE ""),
             ArgumentStyle, "directive_" \o directive.Name, "1", "", "", "",
             Geometry(Zero, RowsHeight(DirectiveHeight, n - 1),
                      FromInt(DirectiveWidth), FromInt(FieldHeight), ""))

DirectiveCell(directive) ==
  MxCell("directive_" \o directive.Name,
         "@" \o directive.Name \o "\non " \o Join(directive.Locations, ", ", 1),
         DirectiveStyle, "1", "1", "", "", "",
         Geometry(directive.Position.X, directive.Position.Y, FromInt(DirectiveWidth),
                  RowsHeight(DirectiveHeight, Len(directive.Arguments)), ""))

RECURSIVE DirectiveCells(_, _)
DirectiveCells(directives, n) ==
  IF n > Len(directives) THEN <<>>
  ELSE <<DirectiveCell(directives[n])>>
       \o [a \in 1..Len(directives[n].Arguments) |-> ArgumentCell(directives[n], a)]
       \o DirectiveCells(directives, n + 1)

\* d.Classes after the loop that appends a node per scalar.
WithScalarNodes(diagram) ==
  [diagram EXCEPT !.Classes =
     @ \o [n \in 1..Len(diagram.Scalars) |-> ScalarClassNode(diagram.Scalars[n], ZeroPosition)]]

\* d.Classes after the loop that appends a node per directive.
WithDirectiveNodes(diagram) ==
  [diagram EXCEPT !.Classes =
     @ \o [n \in 1..Len(diagram.Directives) |->
             DirectiveClassNode(diagram.Directives[n], ZeroPosition)]]

\* ------------------------------------------------------------------------
\* Inputs
\* ------------------------------------------------------------------------

\* Values rand.Float64() returns, in [0, 1): 0 and 1/2.
RandVals == {Zero, Round(1, -1)}

\* enum Color { RED }
DocEnumOnly == <<EnumDef("Color")>>

\* type A { x: String }  type B { y: Int! }
DocTwoClasses ==
  <<ObjectDef("A", <<FieldDef("x", Named("String"))>>),
    ObjectDef("B", <<FieldDef("y", NonNull(Named("Int")))>>)>>

\* type A { b: [B!]!  u: In }  input In { x: String }  type B { a: A  x: String }
DocLinkedClasses ==
  <<ObjectDef("A", <<FieldDef("b", NonNull(List(NonNull(Named("B"))))),
                     FieldDef("u", Named("In"))>>),
    InputDef("In", <<FieldDef("x", Named("String"))>>),
    ObjectDef("B", <<FieldDef("a", Named("A")), FieldDef("x", Named("String"))>>)>>

\* type A { e: Color  s: S!  a: A }  enum Color { RED }  scalar S
DocClassScalar ==
  <<ObjectDef("A", <<FieldDef("e", Named("Color")), FieldDef("s", NonNull(Named("S"))),
                     FieldDef("a", Named("A"))>>),
    EnumDef("Color"),
    ScalarDef("S", "a scalar")>>

\* directive @d(arg: S = "x", n: Int) on FIELD | OBJECT  scalar S
DocDirective ==
  <<DirectiveDef("d", <<ArgDef("arg", Named("S"), [kind |-> "string", value |-> "x"]),
                        ArgDef("n", Named("Int"), NoDefault)>>,
                 <<"FIELD", "OBJECT">>),
    ScalarDef("S", "")>>

\* scalar S
DocScalarOnly == <<ScalarDef("S", "")>>

Documents ==
  {DocEnumOnly, DocTwoClasses, DocLinkedClasses, DocClassScalar, DocDirective,
   DocScalarOnly}

\* ------------------------------------------------------------------------
\* State
\* ------------------------------------------------------------------------

VARIABLES
  doc,          \* the parsed schema document
  d,            \* the Diagram
  cells,        \* mxFile.Diagram.Model.Root.Cells
  pc,           \* position in main / generateDrawIOXML / calculateLayout
  call,         \* calculateLayout calls started so far during generateDrawIOXML
  totalNodes,   \* calculateLayout: totalNodes
  k,            \* calculateLayout: k
  fresh,        \* calculateLayout: the nodes of allNodes that are not d.Classes
  i,            \* calculateLayout: the iteration counter
  j,            \* calculateLayout: index of the relation of the attraction pass
  outcome,      \* how the latest calculateLayout call ended
  compositions  \* the identities of allNodes at the start of each call

vars == <<doc, d, cells, pc, call, totalNodes, k, fresh, i, j, outcome, compositions>>

\* allNodes: the ClassNodes of d.Classes (shared by pointer) and the fresh nodes.
allNodes == d.Classes \o fresh

\* The identities of a slice of nodes.
Identities(nodes) == {nodes[n].ID : n \in 1..Len(nodes)}

\* The diagram and the fresh nodes after allNodes' elements became nodes.
ClassesOf(nodes) == SubSeq(nodes, 1, Len(d.Classes))

FreshOf(nodes) == SubSeq(nodes, Len(d.Classes) + 1, Len(nodes))

\* The nodes are written through the pointers of allNodes: the first Len(d.Classes)
\* are the ClassNodes of d.Classes, the others the fresh nodes.
StoreNodes(nodes) ==
  /\ d' = [d EXCEPT !.Classes = ClassesOf(nodes)]
  /\ fresh' = FreshOf(nodes)

Init ==
  /\ doc \in Documents
  /\ d = EmptyDiagram
  /\ cells = <<>>
  /\ pc = "processSchema"
  /\ call = 0
  /\ totalNodes = 0
  /\ k = Zero
  /\ fresh = <<>>
  /\ i = 0
  /\ j = 0
  /\ outcome = "none"
  /\ compositions = <<>>

\* main: processSchema(doc, diagram), then outputDiagram calls generateDrawIOXML,
\* which starts by calling calculateLayout.
ProcessSchema ==
  /\ pc = "processSchema"
  /\ d' = processSchema(doc, d)
  /\ pc' = "call"
  /\ UNCHANGED <<doc, cells, call, totalNodes, k, fresh, i, j, outcome, compositions>>

\* calculateLayout up to the iteration loop.
CalculateLayoutEnter ==
  /\ pc = "call"
  /\ \E rnd \in [1..(2 * (Len(d.Scalars) + Len(d.Directives))) -> RandVals] :
       fresh' = FreshNodes(d, rnd)
  /\ call' = call + 1
  /\ totalNodes' = Len(d.Classes) + Len(d.Scalars) + Len(d.Directives)
  /\ k' = IdealEdgeLength(d, totalNodes')
  /\ i' = 0
  /\ j' = 0
  /\ outcome' = "running"
  /\ compositions' = Append(compositions, Identities(d.Classes) \cup Identities(fresh'))
  /\ pc' = "repulse"
  /\ UNCHANGED <<doc, d, cells>>

\* The repulsion loops of iteration i.
RepulsionPass ==
  /\ pc = "repulse"
  /\ i < Iterations
  /\ StoreNodes(Repulsion(allNodes, k))
  /\ IF Len(d.Relations) = 0
     THEN i' = i + 1 /\ j' = 0 /\ pc' = "repulse"
     ELSE i' = i /\ j' = 1 /\ pc' = "attract"
  /\ UNCHANGED <<doc, cells, call, totalNodes, k, outcome, compositions>>

\* The body of the attraction loop for relation j of iteration i.
AttractStep ==
  /\ pc = "attract"
  /\ StoreNodes(AttractRel(allNodes, d.Relations[j], k))
  /\ IF j = Len(d.Relations)
     THEN i' = i + 1 /\ j' = 0 /\ pc' = "repulse"
     ELSE i' = i /\ j' = j + 1 /\ pc' = "attract"
  /\ UNCHANGED <<doc, cells, call, totalNodes, k, outcome, compositions>>

\* calculateLayout returns when the iteration loop ends.
CalculateLayoutReturn ==
  /\ pc = "repulse"
  /\ i = Iterations
  /\ outcome' = "returned"
  /\ pc' = CASE call = 1 -> "classCells"
             [] call = 2 -> "scalarCells"
             [] OTHER    -> "directiveCells"
  /\ UNCHANGED <<doc, d, cells, call, totalNodes, k, fresh, i, j, compositions>>

\* The header cells, the class and field cells and the edge cells.
EmitClassAndEdgeCells ==
  /\ pc = "classCells"
  /\ cells' = HeaderCells \o ClassCells(d.Classes, 1) \o EdgeCells(d.Relations)
  /\ pc' = "scalarNodes"
  /\ UNCHANGED <<doc, d, call, totalNodes, k, fresh, i, j, outcome, compositions>>

\* The loop that appends a ClassNode per scalar to d.Classes; then calculateLayout.
AppendScalarNodes ==
  /\ pc = "scalarNodes"
  /\ d' = WithScalarNodes(d)
  /\ pc' = "call"
  /\ UNCHANGED <<doc, cells, call, totalNodes, k, fresh, i, j, outcome, compositions>>

\* The scalar cells.
EmitScalarCells ==
  /\ pc = "scalarCells"
  /\ cells' = cells \o ScalarCells(d.Scalars)
  /\ pc' = "directiveNodes"
  /\ UNCHANGED <<doc, d, call, totalNodes, k, fresh, i, j, outcome, compositions>>

\* The loop that appends a ClassNode per directive to d.Classes; then calculateLayout.
AppendDirectiveNodes ==
  /\ pc = "directiveNodes"
  /\ d' = WithDirectiveNodes(d)
  /\ pc' = "call"
  /\ UNCHANGED <<doc, cells, call, totalNodes, k, fresh, i, j, outcome, compositions>>

\* The directive and argument cells; the document is then marshalled and returned.
EmitDirectiveCells ==
  /\ pc = "directiveCells"
  /\ cells' = cells \o DirectiveCells(d.Directives, 1)
  /\ pc' = "done"
  /\ UNCHANGED <<doc, d, call, totalNodes, k, fresh, i, j, outcome, compositions>>

Next ==
  \/ ProcessSchema
  \/ CalculateLayoutEnter
  \/ RepulsionPass
  \/ AttractStep
  \/ CalculateLayoutReturn
  \/ EmitClassAndEdgeCells
  \/ AppendScalarNodes
  \/ EmitScalarCells
  \/ AppendDirectiveNodes
  \/ EmitDirectiveCells

Spec == Init /\ [][Next]_vars

\* ------------------------------------------------------------------------
\* Properties
\* ------------------------------------------------------------------------

InLayout == pc \in {"repulse", "attract"}

NodeIndices == 1..Len(allNodes)

FinitePosition(p) == IsFinite(p.X) /\ IsFinite(p.Y)

\* A relation one of whose endpoints names no node of allNodes.
Dangling(rel) ==
  \/ \A n \in NodeIndices : allNodes[n].Name # rel.From
  \/ \A n \in NodeIndices : allNodes[n].Name # rel.To

\* The diagram with every position field cleared.
ClearPosition(node) == [node EXCEPT !.Position = ZeroPosition]

WithoutPositions(diagram) ==
  [diagram EXCEPT
     !.Classes = [n \in 1..Len(@) |-> ClearPosition(@[n])],
     !.Scalars = [n \in 1..Len(@) |-> ClearPosition(@[n])],
     !.Directives = [n \in 1..Len(@) |-> ClearPosition(@[n])]]

\* C1: when the diagram has no node, the layout call fails with EmptyGraphError,
\* does not compute k by dividing by zero, performs no relaxation pass and
\* leaves the diagram unchanged.
C1_EmptyGraphFails ==
  (call >= 1 /\ totalNodes = 0) =>
    /\ outcome = "EmptyGraphError"
    /\ ~IsInf(k)
    /\ i = 0
    /\ d = processSchema(doc, EmptyDiagram)

\* C2: the attraction pass skips a relation one of whose endpoints names no
\* simulated node: the step moves no node, raises no error and goes on to the next
\* relation or the next iteration; a call returns only after all its iterations.
C2_DanglingRelationSkipped ==
  /\ [][(pc = "attract" /\ Dangling(d.Relations[j])) =>
          /\ allNodes' = allNodes
          /\ outcome' = "running"
          /\ IF j < Len(d.Relations)
             THEN pc' = "attract" /\ j' = j + 1 /\ i' = i
             ELSE pc' = "repulse" /\ i' = i + 1]_vars
  /\ [](outcome = "returned" => i = Iterations)

\* C2 witness: in a pass after the first, a dangling relation was just skipped
\* while a node is away from the origin at a finite position.
C2_Witness ==
  /\ pc = "attract"
  /\ j >= 2
  /\ i >= 1
  /\ Dangling(d.Relations[j - 1])
  /\ \E n \in NodeIndices :
       FinitePosition(allNodes[n].Position) /\ allNodes[n].Position # ZeroPosition

\* C3: with at least one node and no relation, no two distinct simulated nodes
\* are at the same position once calculateLayout has returned.
C3_CoincidentStartsSeparate ==
  (outcome = "returned" /\ totalNodes >= 1 /\ Len(d.Relations) = 0) =>
    \A a, b \in NodeIndices : a # b => allNodes[a].Position # allNodes[b].Position

\* C4: with at least one node, every simulated node's x and y are finite after
\* every repulsion pass and every attraction pass.
C4_PositionsFinite ==
  (call >= 1 /\ totalNodes >= 1) =>
    \A n \in NodeIndices : FinitePosition(allNodes[n].Position)

\* C5: in every calculateLayout call no two nodes of allNodes share an ID.
C5_IdentitiesUnique ==
  InLayout => \A a, b \in NodeIndices : a # b => allNodes[a].ID # allNodes[b].ID

\* C6: calculateLayout is called at most once for any set of node identities.
C6_OncePerComposition ==
  \A a, b \in 1..Len(compositions) : a # b => compositions[a] # compositions[b]

\* The style of the vertex cells generateDrawIOXML has just emitted.
JustEmittedStyle ==
  CASE pc = "scalarNodes"    -> ClassStyle
    [] pc = "directiveNodes" -> ScalarStyle
    [] OTHER                 -> DirectiveStyle

\* C7: the (x, y) emitted in a node's vertex cell is the position the simulation
\* computed for a node with that identity in the call that precedes the emission.
C7_EmittedPositionIsSimulated ==
  (pc \in {"scalarNodes", "directiveNodes", "done"}) =>
    \A c \in 1..Len(cells) :
      cells[c].Style = JustEmittedStyle =>
        \E n \in NodeIndices :
          /\ allNodes[n].ID = cells[c].ID
          /\ allNodes[n].Position = Position(cells[c].Geometry[1].X, cells[c].Geometry[1].Y)

\* C8: after processSchema the diagram keeps the members, order, sizes, labels
\* and edge types processSchema built; only positions change.
C8_CollectionsKeepMembers ==
  (pc # "processSchema") =>
    WithoutPositions(d) = WithoutPositions(processSchema(doc, EmptyDiagram))

\* The endpoints of the relation of the current attraction step.
FromIndex == FindNode(allNodes, d.Relations[j].From)

ToIndex == FindNode(allNodes, d.Relations[j].To)

Resolved == pc = "attract" /\ ~Dangling(d.Relations[j])

OthersUnmoved ==
  \A n \in NodeIndices : n \notin {FromIndex, ToIndex} => allNodes'[n] = allNodes[n]

\* The float64 sum of the positions of the two endpoints.
EndpointSum(nodes, from, to) == Plus(nodes[from].Position, nodes[to].Position)

\* C9 as stated: a step on a resolved relation leaves the sum of the endpoints'
\* positions and every other node unchanged, and moves nothing when from and to
\* are the same node.
C9_SumPreserved ==
  [][Resolved =>
       /\ EndpointSum(allNodes', FromIndex, ToIndex) = EndpointSum(allNodes, FromIndex, ToIndex)
       /\ OthersUnmoved
       /\ (FromIndex = ToIndex => allNodes' = allNodes)]_vars

\* The pull vector of the current attraction step.
CurrentPull ==
  PullVector(allNodes[FromIndex].Position, allNodes[ToIndex].Position, k)

\* C9 amended: a step on a resolved relation subtracts from the from node and adds
\* to the to node the same float64 vector, each update rounded on its own; every
\* other node is unchanged; when from and to are the same node at a finite
\* position nothing moves.
C9_EqualOppositePull ==
  [][Resolved =>
       /\ OthersUnmoved
       /\ (FromIndex # ToIndex =>
             /\ allNodes'[FromIndex].Position = Minus(allNodes[FromIndex].Position, CurrentPull)
             /\ allNodes'[ToIndex].Position = Plus(allNodes[ToIndex].Position, CurrentPull))
       /\ (FromIndex = ToIndex =>
             /\ allNodes'[FromIndex].Position =
                  Plus(Minus(allNodes[FromIndex].Position, CurrentPull), CurrentPull)
             /\ (FinitePosition(allNodes[FromIndex].Position) => allNodes' = allNodes))]_vars

\* C9 witness: a relation between two distinct nodes at different finite positions
\* was just processed and its endpoints are still at finite positions.
C9_Witness ==
  /\ pc = "attract"
  /\ j >= 2
  /\ ~Dangling(d.Relations[j - 1])
  /\ LET from == FindNode(allNodes, d.Relations[j - 1].From)
         to   == FindNode(allNodes, d.Relations[j - 1].To)
     IN  /\ from # to
         /\ FinitePosition(allNodes[from].Position)
         /\ FinitePosition(allNodes[to].Position)
         /\ allNodes[from].Position # allNodes[to].Position

\* A name the schema defines: a type, or a directive under its "@" name.
DefinedInSchema(name) ==
  \E n \in 1..Len(doc) :
    \/ doc[n].name = name
    \/ doc[n].kind = "directive" /\ "@" \o doc[n].name = name

VertexIDs == {cells[c].ID : c \in {x \in 1..Len(cells) : cells[x].Vertex = "1"}}

\* C10: in the finished output, the Source and Target of every edge cell whose
\* relation joins names defined in the schema are IDs of emitted vertex cells.
C10_EdgeEndpointsExist ==
  (pc = "done") =>
    \A c \in 1..Len(cells) :
      (cells[c].Edge = "1" /\ DefinedInSchema(cells[c].Source)
         /\ DefinedInSchema(cells[c].Target)) =>
        cells[c].Source \in VertexIDs /\ cells[c].Target \in VertexIDs

====
